---------------------------- MODULE Spec2Model ----------------------------
(***************************************************************************)
(* Model of save_kits19_frames, the NIfTI-to-frames converter of the       *)
(* "Data Preparation for 2D Medical Imaging" notebook (src/unnamed/        *)
(* part_000, lines 292-363).                                               *)
(*                                                                         *)
(* A volume is a record [shape, data]: shape is the numpy shape <<D,H,W>>, *)
(* data is the sequence of its D axial slices, each slice the row-major    *)
(* sequence of its H*W values.  get_fdata() returns float64; the CT        *)
(* intensities and the labels are whole numbers, kept as integers here.    *)
(* A float produced by the rescale is kept as the exact quotient           *)
(* <<numerator, denominator>>; denominator 0 is numpy's NaN (0.0/0.0).     *)
(* For denominators below 600 the float64 result of (a/b)*255 truncates to *)
(* the same integer as the exact quotient.                                 *)
(*                                                                         *)
(* files maps a path to the array handed to cv2.imwrite for it (for the    *)
(* mask, after OpenCV's conversion to 8 bits); the JPEG encoding of the    *)
(* image frames is not modelled.  Spec is one call of save_kits19_frames   *)
(* on an output location that holds no frames, with or without root_dir.   *)
(***************************************************************************)
EXTENDS Integers, Sequences, FiniteSets, TLC

\* ------------------------------------------------------------ bounds
MaxDepth == 2
MaxHeight == 2
MaxWidth == 3
MaxVoxels == 4
MaxLabel == 2

\* --------------------------------------------------------- input sets
\* Raw intensities: two values at or below the soft-tissue window, one
\* inside it, one above it.
IntensitySeq == <<-200, -125, 50, 300>>

Intensities == {IntensitySeq[k] : k \in 1..Len(IntensitySeq)}

Labels == 0..MaxLabel

LabelSeq == [k \in 1..(MaxLabel + 1) |-> k - 1]

\* window_level=None
None == <<>>

\* window_level=(-125, 225), the soft-tissue window of the notebook
SoftTissue == <<-125, 225>>

Windows == {None, SoftTissue}

Cases == {"case_00000", "case_00001"}

Shapes ==
  {s \in (1..MaxDepth) \X (1..MaxHeight) \X (1..MaxWidth) :
     s[1] * s[2] * s[3] <= MaxVoxels}

\* A path that does not exist on disk / a volume that is not loaded.
Missing == [shape |-> <<>>, data |-> <<>>]

Volumes(shape, values) ==
  [shape : {shape},
   data : [1..shape[1] -> [1..(shape[2] * shape[3]) -> values]]]

\* One fixed volume of the given shape: its values run through seq.
RepVolume(shape, seq) ==
  [shape |-> shape,
   data |-> [s \in 1..shape[1] |->
               [k \in 1..(shape[2] * shape[3]) |->
                  seq[((s + k) % Len(seq)) + 1]]]]

\* The (segmentation.nii.gz, imaging.nii.gz) pairs a case directory may
\* hold: every image volume with a mask of its shape, every mask volume
\* with an image of its shape, pairs of different shapes, and pairs with
\* a file missing.
CasePairs ==
  UNION {
    {[mask |-> RepVolume(s, LabelSeq), image |-> v] : v \in Volumes(s, Intensities)}
    \cup
    {[mask |-> m, image |-> RepVolume(s, IntensitySeq)] : m \in Volumes(s, Labels)}
    : s \in Shapes}
  \cup
  {[mask |-> RepVolume(s, LabelSeq), image |-> RepVolume(t, IntensitySeq)] :
     s \in Shapes, t \in Shapes}
  \cup
  {[mask |-> Missing, image |-> RepVolume(s, IntensitySeq)] : s \in Shapes}
  \cup
  {[mask |-> RepVolume(s, LabelSeq), image |-> Missing] : s \in Shapes}
  \cup
  {[mask |-> Missing, image |-> Missing]}

\* ------------------------------------------------------------- state
VARIABLES
  nifti,         \* case |-> [mask, image]: the .nii.gz files under NIFTI_PATH
  dirs,          \* directories that exist at the output location
  files,         \* path |-> frame: image files at the output location
  mask_path,     \* argument: the case whose segmentation.nii.gz is given
  window_level,  \* argument
  make_binary,   \* argument
  pc,            \* position in save_kits19_frames
  err,           \* the AssertionError that ended the call, "" if none
  mask_data,     \* local
  image_data,    \* local
  i,             \* local: the loop index of enumerate
  denoms,        \* history: the denominator of each division performed
  written,       \* history: the paths given to cv2.imwrite, in order
  dirs0,         \* history: dirs when the call started
  files0         \* history: files when the call started

\* The caller of save_kits19_frames: the batch conversion cell, or a user
\* who calls the function again.
VARIABLES
  mask_paths,    \* the sorted list of the batch conversion cell
  case_idx,      \* how many iterations of its for loop have started
  batch_pc,      \* position in the batch conversion cell, "none" outside it
  runs           \* how many calls of save_kits19_frames have started

callerVars == <<mask_paths, case_idx, batch_pc, runs>>

\* The machine translation demo (translate and run_translator).
VARIABLES
  stdin,          \* the lines the user types, in order
  lines_read,     \* how many of them input() has returned
  input_sentence, \* local of run_translator
  tr_pc,          \* position in run_translator / translate, "none" outside
  tokens,         \* local of translate
  translated,     \* local of run_translator
  stdout,         \* what print has written, in order
  infer_log,      \* history: the inputs given to infer_request.infer
  translate_log   \* history: the arguments translate was called with

translatorVars ==
  <<stdin, lines_read, input_sentence, tr_pc, tokens, translated, stdout,
    infer_log, translate_log>>

callVars ==
  <<nifti, dirs, files, mask_path, window_level, make_binary, pc, err,
    mask_data, image_data, i, denoms, written, dirs0, files0>>

vars == <<callVars, callerVars, translatorVars>>

\* ------------------------------------------------------------- paths
root_dir == "kits19_frames"

Digit == <<"0", "1", "2", "3", "4", "5", "6", "7", "8", "9">>

RECURSIVE Decimal(_)
\* str(n) for n >= 0
Decimal(n) ==
  IF n < 10 THEN Digit[n + 1] ELSE Decimal(n \div 10) \o Digit[(n % 10) + 1]

RECURSIVE ZeroPad(_, _)
\* left-pad with "0" to the given width; longer strings are left alone
ZeroPad(str, width) ==
  IF Len(str) >= width THEN str ELSE ZeroPad("0" \o str, width)

\* Faulty variant: a constant formatted in place of the loop index.
Format04dLax(n) == ZeroPad(Decimal(0), 4)

\* f"{n:04d}"
Format04d(n) == ZeroPad(Decimal(n), 4)

CaseDirectory(case) == root_dir \o "/" \o case

ImageDirectory(case) == CaseDirectory(case) \o "/imaging_frames"

MaskDirectory(case) == CaseDirectory(case) \o "/segmentation_frames"

\* A file path is the pair <<directory, file name>>.
NewImagePath(case, n) ==
  <<ImageDirectory(case), case \o "_" \o Format04d(n) \o ".jpg">>

NewMaskPath(case, n) ==
  <<MaskDirectory(case), case \o "_" \o Format04d(n) \o ".png">>

\* ------------------------------------------------- array operations
SeqMin(row) == CHOOSE m \in {row[k] : k \in 1..Len(row)} :
                 \A k \in 1..Len(row) : m <= row[k]

SeqMax(row) == CHOOSE m \in {row[k] : k \in 1..Len(row)} :
                 \A k \in 1..Len(row) : m >= row[k]

\* Faulty variant: only mask_path.exists() is asserted.
PathsExistLax(case) == nifti[case].mask # Missing

\* mask_path.exists() and image_path.exists()
PathsExist(case) == nifti[case].mask # Missing /\ nifti[case].image # Missing

\* Faulty variant: len(mask_data) == len(image_data)
ShapesEqualLax(m, im) == m.shape[1] = im.shape[1]

\* mask_data.shape == image_data.shape
ShapesEqual(m, im) == m.shape = im.shape

\* Faulty variant: x[x >= 0] = 1
BinarizeLabelLax(v) == IF v >= 0 THEN 1 ELSE v

\* x[x > 0] = 1, one element
BinarizeLabel(v) == IF v > 0 THEN 1 ELSE v

\* x[x < window_start] = window_start, one element
ClipBelow(x, window_start) == IF x < window_start THEN window_start ELSE x

\* x[x > window_end] = window_end, one element
ClipAbove(x, window_end) == IF x > window_end THEN window_end ELSE x

\* Faulty variant: the upper clip is left out.
ApplyWindowLax(x, window) == ClipBelow(x, window[1])

\* the two masked assignments of the windowing step, in their order
ApplyWindow(x, window) == ClipAbove(ClipBelow(x, window[1]), window[2])

\* mask_data[mask_data > 0] = 1 over the whole volume, in place
BinarizeVolume(vol) ==
  [vol EXCEPT !.data =
     [s \in 1..Len(vol.data) |->
        [k \in 1..Len(vol.data[s]) |-> BinarizeLabel(vol.data[s][k])]]]

\* Faulty variant: the windowing works on a copy that is thrown away.
WindowVolumeLax(vol, window) == vol

\* the windowing step over the whole volume, in place
WindowVolume(vol, window) ==
  [vol EXCEPT !.data =
     [s \in 1..Len(vol.data) |->
        [k \in 1..Len(vol.data[s]) |-> ApplyWindow(vol.data[s][k], window)]]]

\* Faulty variant: the loop stops one frame early.
NumFramesLax(m, im) ==
  (IF Len(m.data) <= Len(im.data) THEN Len(m.data) ELSE Len(im.data)) - 1

\* zip(mask_data, image_data) stops with the shorter of the two
NumFrames(m, im) ==
  IF Len(m.data) <= Len(im.data) THEN Len(m.data) ELSE Len(im.data)

\* image_data.min(), over all slices
VolumeMin(vol) ==
  SeqMin([s \in 1..Len(vol.data) |-> SeqMin(vol.data[s])])

\* Faulty variant: the minimum of the volume in place of the frame's.
FrameMinLax(vol, n) == VolumeMin(vol)

\* image_frame.min() of the frame with (0-based) index n
FrameMin(vol, n) == SeqMin(vol.data[n + 1])

\* image_frame.max() of the frame with (0-based) index n
FrameMax(vol, n) == SeqMax(vol.data[n + 1])

\* Faulty variant: a guard that divides a constant frame by 1.
DenominatorLax(vol, n) ==
  IF FrameMax(vol, n) = FrameMin(vol, n) THEN 1
  ELSE FrameMax(vol, n) - FrameMin(vol, n)

\* image_frame.max() - image_frame.min()
Denominator(vol, n) == FrameMax(vol, n) - FrameMin(vol, n)

\* (image_frame - image_frame.min()) / (max - min), then * 255: the exact
\* quotient <<numerator, denominator>> of each pixel; a 0 denominator
\* makes every pixel 0.0/0.0 = NaN (numpy warns and goes on).
Rescale(vol, n) ==
  [k \in 1..Len(vol.data[n + 1]) |->
     <<(vol.data[n + 1][k] - FrameMin(vol, n)) * 255, Denominator(vol, n)>>]

\* What astype(np.uint8) may make of NaN: the conversion is undefined in C;
\* the scalar x86-64 and ARM conversions give 0, the AVX-512 one gives 255.
NaNAsUint8 == {0, 255}

\* Faulty variant: astype(np.int8)
AsUint8Lax(q) ==
  IF q[2] = 0 THEN NaNAsUint8
  ELSE {IF (q[1] \div q[2]) % 256 >= 128 THEN ((q[1] \div q[2]) % 256) - 256
        ELSE (q[1] \div q[2]) % 256}

\* astype(np.uint8) of one float: the values it may produce.  A finite
\* value is truncated and wraps modulo 2^8.
AsUint8(q) ==
  IF q[2] = 0 THEN NaNAsUint8 ELSE {(q[1] \div q[2]) % 256}

\* The uint8 frames the rescale-and-cast of frame n may produce: each
\* pixel is one of the values its cast may give.
ImageFrames(vol, n) ==
  LET out == [k \in 1..Len(vol.data[n + 1]) |-> AsUint8(Rescale(vol, n)[k])]
  IN {f \in [1..Len(vol.data[n + 1]) -> UNION {out[k] : k \in DOMAIN out}] :
        \A k \in DOMAIN out : f[k] \in out[k]}

\* cv2.imwrite of the float64 mask frame to a .png: the encoder takes no
\* 64-bit floats, so OpenCV converts the frame to 8 bits, saturating.
Saturate8U(v) == IF v < 0 THEN 0 ELSE IF v > 255 THEN 255 ELSE v

MaskFrame(vol, n) ==
  [k \in 1..Len(vol.data[n + 1]) |-> Saturate8U(vol.data[n + 1][k])]

\* Faulty variant: every mkdir is done before the checks.
EarlyDirsLax(case) ==
  {root_dir, CaseDirectory(case), ImageDirectory(case), MaskDirectory(case)}

\* Path(root_dir).mkdir(exist_ok=True), before the checks; the parent of
\* root_dir exists (FRAMES_DIR is a sibling of NIFTI_PATH).
EarlyDirs(case) == {root_dir}

\* the three mkdir(exist_ok=True) calls before the loop
FrameDirs(case) ==
  {CaseDirectory(case), ImageDirectory(case), MaskDirectory(case)}

\* cv2.imwrite(path, frame): creates or overwrites the file
ImWrite(fs, path, frame) ==
  [p \in DOMAIN fs \cup {path} |-> IF p = path THEN frame ELSE fs[p]]

\* ----------------------------------------------------------- actions
NoFiles == [p \in {} |-> <<>>]

\* save_kits19_frames is called directly, once.
NoCaller ==
  /\ mask_paths = <<>>
  /\ case_idx = 0
  /\ batch_pc = "none"
  /\ runs = 1

\* The translation demo is not running.
NoTranslator ==
  /\ stdin = <<>>
  /\ lines_read = 0
  /\ input_sentence = <<>>
  /\ tr_pc = "none"
  /\ tokens = <<>>
  /\ translated = ""
  /\ stdout = <<>>
  /\ infer_log = <<>>
  /\ translate_log = <<>>

Init ==
  /\ mask_path \in Cases
  /\ \E pair \in CasePairs :
       nifti = [c \in Cases |->
                  IF c = mask_path THEN pair
                  ELSE [mask |-> Missing, image |-> Missing]]
  /\ window_level \in Windows
  /\ make_binary \in BOOLEAN
  /\ dirs \in {{}, {root_dir}}
  /\ files = NoFiles
  /\ pc = "mkdir_root"
  /\ err = ""
  /\ mask_data = Missing
  /\ image_data = Missing
  /\ i = 0
  /\ denoms = <<>>
  /\ written = <<>>
  /\ dirs0 = dirs
  /\ files0 = files
  /\ NoCaller
  /\ NoTranslator

\* Path(root_dir).mkdir(exist_ok=True)
MkdirRoot ==
  /\ pc = "mkdir_root"
  /\ dirs' = dirs \cup EarlyDirs(mask_path)
  /\ pc' = "assert_paths"
  /\ UNCHANGED <<nifti, files, mask_path, window_level, make_binary, err,
                 mask_data, image_data, i, denoms, written, dirs0, files0>>
  /\ UNCHANGED <<callerVars, translatorVars>>

\* assert mask_path.exists(); assert image_path.exists()
AssertPaths ==
  /\ pc = "assert_paths"
  /\ IF PathsExist(mask_path)
     THEN pc' = "load" /\ err' = err
     ELSE /\ pc' = "aborted"
          /\ err' = IF nifti[mask_path].mask = Missing
                    THEN "mask_path does not exist!"
                    ELSE "image_path does not exist!"
  /\ UNCHANGED <<nifti, dirs, files, mask_path, window_level, make_binary,
                 mask_data, image_data, i, denoms, written, dirs0, files0>>
  /\ UNCHANGED <<callerVars, translatorVars>>

\* nib.load(...).get_fdata() of both files
Load ==
  /\ pc = "load"
  /\ mask_data' = nifti[mask_path].mask
  /\ image_data' = nifti[mask_path].image
  /\ pc' = "assert_shape"
  /\ UNCHANGED <<nifti, dirs, files, mask_path, window_level, make_binary,
                 err, i, denoms, written, dirs0, files0>>
  /\ UNCHANGED <<callerVars, translatorVars>>

\* assert mask_data.shape == image_data.shape
AssertShape ==
  /\ pc = "assert_shape"
  /\ IF ShapesEqual(mask_data, image_data)
     THEN pc' = "binarize" /\ err' = err
     ELSE pc' = "aborted" /\ err' = "Mask and image shape are not equal"
  /\ UNCHANGED <<nifti, dirs, files, mask_path, window_level, make_binary,
                 mask_data, image_data, i, denoms, written, dirs0, files0>>
  /\ UNCHANGED <<callerVars, translatorVars>>

\* if make_binary: mask_data[mask_data > 0] = 1
Binarize ==
  /\ pc = "binarize"
  /\ mask_data' = IF make_binary THEN BinarizeVolume(mask_data)
                  ELSE mask_data
  /\ pc' = "window"
  /\ UNCHANGED <<nifti, dirs, files, mask_path, window_level, make_binary,
                 err, image_data, i, denoms, written, dirs0, files0>>
  /\ UNCHANGED <<callerVars, translatorVars>>

\* if window_level is not None: clip image_data in place
Window ==
  /\ pc = "window"
  /\ image_data' =
       IF window_level # None
       THEN WindowVolume(image_data, window_level)
       ELSE image_data
  /\ pc' = "mkdirs"
  /\ UNCHANGED <<nifti, dirs, files, mask_path, window_level, make_binary,
                 err, mask_data, i, denoms, written, dirs0, files0>>
  /\ UNCHANGED <<callerVars, translatorVars>>

\* image_directory.parent.mkdir, image_directory.mkdir, mask_directory.mkdir
Mkdirs ==
  /\ pc = "mkdirs"
  /\ dirs' = dirs \cup FrameDirs(mask_path)
  /\ i' = 0
  /\ pc' = "loop"
  /\ UNCHANGED <<nifti, files, mask_path, window_level, make_binary, err,
                 mask_data, image_data, denoms, written, dirs0, files0>>
  /\ UNCHANGED <<callerVars, translatorVars>>

\* one iteration of the for loop: rescale, cast, two cv2.imwrite calls
WriteFrame ==
  /\ pc = "loop"
  /\ i < NumFrames(mask_data, image_data)
  /\ \E image_frame \in ImageFrames(image_data, i) :
       files' = ImWrite(ImWrite(files, NewImagePath(mask_path, i), image_frame),
                        NewMaskPath(mask_path, i), MaskFrame(mask_data, i))
  /\ denoms' = Append(denoms, Denominator(image_data, i))
  /\ written' = written \o <<NewImagePath(mask_path, i), NewMaskPath(mask_path, i)>>
  /\ i' = i + 1
  /\ UNCHANGED <<nifti, dirs, mask_path, window_level, make_binary, pc, err,
                 mask_data, image_data, dirs0, files0>>
  /\ UNCHANGED <<callerVars, translatorVars>>

\* the loop is exhausted: print the summary and return
Finish ==
  /\ pc = "loop"
  /\ i >= NumFrames(mask_data, image_data)
  /\ pc' = "done"
  /\ UNCHANGED <<nifti, dirs, files, mask_path, window_level, make_binary,
                 err, mask_data, image_data, i, denoms, written, dirs0, files0>>
  /\ UNCHANGED <<callerVars, translatorVars>>

Next ==
  \/ MkdirRoot
  \/ AssertPaths
  \/ Load
  \/ AssertShape
  \/ Binarize
  \/ Window
  \/ Mkdirs
  \/ WriteFrame
  \/ Finish

Spec == Init /\ [][Next]_vars

\* ------------------------------------------ the batch conversion cell
\* The case directories under NIFTI_PATH, in the order of their names.
CaseSeq == <<"case_00000", "case_00001", "case_00002">>

BatchCases == {CaseSeq[k] : k \in 1..Len(CaseSeq)}

BatchShapes == {<<d, 1, 2>> : d \in 1..MaxDepth}

\* What a case directory of the batch may hold: a mask and an image of the
\* same or of different shapes, or one of the two files only.
BatchPairs ==
  {[mask |-> RepVolume(s, LabelSeq), image |-> RepVolume(t, IntensitySeq)] :
     s \in BatchShapes, t \in BatchShapes}
  \cup
  {[mask |-> Missing, image |-> RepVolume(<<1, 1, 2>>, IntensitySeq)],
   [mask |-> RepVolume(<<1, 1, 2>>, LabelSeq), image |-> Missing]}

\* NIFTI_PATH.glob("case_*/segmentation.nii.gz"): the cases that have a mask
Glob == {c \in DOMAIN nifti : nifti[c].mask # Missing}

InNameOrder(cases) == SelectSeq(CaseSeq, LAMBDA c : c \in cases)

\* Faulty variant: the list is not sorted (here: it comes out reversed).
SortedLax(cases) ==
  [k \in 1..Len(InNameOrder(cases)) |->
     InNameOrder(cases)[Len(InNameOrder(cases)) + 1 - k]]

\* sorted(...) of the globbed paths: by case name
Sorted(cases) == InNameOrder(cases)

InitBatch ==
  /\ nifti \in [BatchCases -> BatchPairs]
  /\ dirs \in {{}, {root_dir}}
  /\ files = NoFiles
  /\ mask_path = ""
  /\ window_level = None
  /\ make_binary = FALSE
  /\ pc = "not_called"
  /\ err = ""
  /\ mask_data = Missing
  /\ image_data = Missing
  /\ i = 0
  /\ denoms = <<>>
  /\ written = <<>>
  /\ dirs0 = dirs
  /\ files0 = files
  /\ mask_paths = <<>>
  /\ case_idx = 0
  /\ batch_pc = "glob"
  /\ runs = 0
  /\ NoTranslator

\* mask_paths = sorted(NIFTI_PATH.glob("case_*/segmentation.nii.gz"))
BatchGlob ==
  /\ batch_pc = "glob"
  /\ mask_paths' = Sorted(Glob)
  /\ batch_pc' = "for"
  /\ UNCHANGED <<callVars, case_idx, runs, translatorVars>>

\* for mask_path in mask_paths: save_kits19_frames(mask_path=mask_path,
\* root_dir=FRAMES_DIR, window_level=(-125, 225), make_binary=True)
BatchCall ==
  /\ batch_pc = "for"
  /\ case_idx < Len(mask_paths)
  /\ case_idx' = case_idx + 1
  /\ mask_path' = mask_paths[case_idx + 1]
  /\ window_level' = SoftTissue
  /\ make_binary' = TRUE
  /\ pc' = "mkdir_root"
  /\ err' = ""
  /\ mask_data' = Missing
  /\ image_data' = Missing
  /\ i' = 0
  /\ denoms' = <<>>
  /\ written' = <<>>
  /\ dirs0' = dirs
  /\ files0' = files
  /\ runs' = runs + 1
  /\ batch_pc' = "call"
  /\ UNCHANGED <<nifti, dirs, files, mask_paths, translatorVars>>

\* save_kits19_frames returns: on to the next mask_path
BatchReturn ==
  /\ batch_pc = "call"
  /\ pc = "done"
  /\ batch_pc' = "for"
  /\ UNCHANGED <<callVars, mask_paths, case_idx, runs, translatorVars>>

\* an AssertionError of save_kits19_frames is not caught: the cell ends
BatchRaise ==
  /\ batch_pc = "call"
  /\ pc = "aborted"
  /\ batch_pc' = "raised"
  /\ UNCHANGED <<callVars, mask_paths, case_idx, runs, translatorVars>>

\* the list is exhausted
BatchEnd ==
  /\ batch_pc = "for"
  /\ case_idx >= Len(mask_paths)
  /\ batch_pc' = "end"
  /\ UNCHANGED <<callVars, mask_paths, case_idx, runs, translatorVars>>

NextBatch ==
  \/ BatchGlob
  \/ BatchCall
  \/ BatchReturn
  \/ BatchRaise
  \/ BatchEnd
  \/ MkdirRoot
  \/ AssertPaths
  \/ Load
  \/ AssertShape
  \/ Binarize
  \/ Window
  \/ Mkdirs
  \/ WriteFrame
  \/ Finish

SpecBatch == InitBatch /\ [][NextBatch]_vars

\* ------------------------------------------- calls under other windows
\* save_kits19_frames takes any window_level; next to the soft tissue
\* window of the batch conversion cell, a narrow one whose two ends are
\* sample intensities.
NarrowWindow == <<-125, 50>>

WindowSamples == {None, SoftTissue, NarrowWindow}

WindowShapes == {<<d, 1, 2>> : d \in 1..MaxDepth}

\* Every image volume of these shapes, with a mask of its shape.
WindowPairs ==
  UNION {
    {[mask |-> RepVolume(s, LabelSeq), image |-> v] :
       v \in Volumes(s, Intensities)}
    : s \in WindowShapes}

InitWindow ==
  /\ mask_path = "case_00000"
  /\ \E pair \in WindowPairs :
       nifti = [c \in Cases |->
                  IF c = mask_path THEN pair
                  ELSE [mask |-> Missing, image |-> Missing]]
  /\ window_level \in WindowSamples
  /\ make_binary = TRUE
  /\ dirs = {}
  /\ files = NoFiles
  /\ pc = "mkdir_root"
  /\ err = ""
  /\ mask_data = Missing
  /\ image_data = Missing
  /\ i = 0
  /\ denoms = <<>>
  /\ written = <<>>
  /\ dirs0 = dirs
  /\ files0 = files
  /\ NoCaller
  /\ NoTranslator

SpecWindow == InitWindow /\ [][Next]_vars

\* ------------------------------------------- a second call, same inputs
\* A file of some other origin in the case's imaging_frames directory.
StalePath == <<ImageDirectory("case_00000"), "notes.txt">>

StaleFiles == [p \in {StalePath} |-> <<7>>]

\* The first call finds an empty output location, or the case's directories
\* with a file of another origin in them.
InitRerun ==
  /\ mask_path = "case_00000"
  /\ \E pair \in WindowPairs :
       nifti = [c \in Cases |->
                  IF c = mask_path THEN pair
                  ELSE [mask |-> Missing, image |-> Missing]]
  /\ window_level \in Windows
  /\ make_binary = TRUE
  /\ \/ dirs = {} /\ files = NoFiles
     \/ dirs = EarlyDirs(mask_path) \cup FrameDirs(mask_path) /\ files = StaleFiles
  /\ pc = "mkdir_root"
  /\ err = ""
  /\ mask_data = Missing
  /\ image_data = Missing
  /\ i = 0
  /\ denoms = <<>>
  /\ written = <<>>
  /\ dirs0 = dirs
  /\ files0 = files
  /\ NoCaller
  /\ NoTranslator

\* save_kits19_frames is called again with the arguments of the call that
\* has returned; dirs0 and files0 keep what that call left behind.
CallAgain ==
  /\ pc = "done"
  /\ runs = 1
  /\ runs' = 2
  /\ pc' = "mkdir_root"
  /\ err' = ""
  /\ mask_data' = Missing
  /\ image_data' = Missing
  /\ i' = 0
  /\ denoms' = <<>>
  /\ written' = <<>>
  /\ dirs0' = dirs
  /\ files0' = files
  /\ UNCHANGED <<nifti, dirs, files, mask_path, window_level, make_binary,
                 mask_paths, case_idx, batch_pc, translatorVars>>

NextRerun ==
  \/ CallAgain
  \/ MkdirRoot
  \/ AssertPaths
  \/ Load
  \/ AssertShape
  \/ Binarize
  \/ Window
  \/ Mkdirs
  \/ WriteFrame
  \/ Finish

SpecRerun == InitRerun /\ [][NextRerun]_vars

\* -------------------------------------- the machine translation demo
\* (src/notebooks/215-machine-translation/machine-translation-demo.ipynb)
\* A sentence is the sequence of its characters; " " is the white space.
\* The tokenizers and the network are library code: the source tokenizer is
\* taken to give one token per character that is not white space, and the
\* network to answer with one of a few target token sequences.
MaxLines == 3

\* model.input("tokens").shape[1]
max_tokens == 4

BOS == "<s>"

EOS == "</s>"

PAD == "<pad>"

\* The lines a user may type: the empty line, white space only, sentences
\* with white space around them, and sentences of one to four tokens.
Sentences ==
  {<<>>, <<" ">>, <<"a">>, <<" ", "b", " ">>, <<"a", "b">>, <<"a", " ", "b">>,
   <<"a", "b", "a">>, <<"a", "b", "a", "b">>}

RECURSIVE LStrip(_)
LStrip(str) ==
  IF str # <<>> /\ Head(str) = " " THEN LStrip(Tail(str)) ELSE str

RECURSIVE RStrip(_)
RStrip(str) ==
  IF str # <<>> /\ str[Len(str)] = " "
  THEN RStrip(SubSeq(str, 1, Len(str) - 1)) ELSE str

\* sentence.strip()
Strip(str) == RStrip(LStrip(str))

\* src_tokenizer.encode(sentence).ids
Encode(str) == SelectSeq(str, LAMBDA ch : ch # " ")

\* [<s>] + tokens + [</s>]
WithMarkers(toks) == <<BOS>> \o toks \o <<EOS>>

\* pad_length = max_tokens - len(tokens); pad when pad_length > 0
Padded(toks) ==
  IF max_tokens - Len(toks) > 0
  THEN toks \o [k \in 1..(max_tokens - Len(toks)) |-> PAD]
  ELSE toks

\* Faulty variant: assert len(tokens) >= max_tokens
LengthOkLax(toks) == Len(toks) >= max_tokens

\* assert len(tokens) == max_tokens, "input sentence is too long"
LengthOk(toks) == Len(toks) = max_tokens

\* tgt_tokenizer.decode(enc_translated[0]) of what the network may answer
InferOutputs ==
  {<<BOS, "Hallo", "Hallo", "Welt", EOS, PAD>>, <<"welt", "Welt", EOS>>}

\* sentence.replace(s, '') for the three markers
WithoutMarkers(words) == SelectSeq(words, LAMBDA w : w \notin {BOS, EOS, PAD})

\* sentence.lower(), one word
Lower(w) == IF w = "Hallo" THEN "hallo" ELSE IF w = "Welt" THEN "welt" ELSE w

RECURSIVE GroupKeys(_)
\* key for key, _ in itertools.groupby(sentence): runs of equal words
\* collapse to one
GroupKeys(words) ==
  IF Len(words) <= 1 THEN words
  ELSE IF words[1] = words[2] THEN GroupKeys(Tail(words))
       ELSE <<words[1]>> \o GroupKeys(Tail(words))

RECURSIVE Join(_)
\* " ".join(words)
Join(words) ==
  IF words = <<>> THEN ""
  ELSE IF Len(words) = 1 THEN words[1]
       ELSE words[1] \o " " \o Join(Tail(words))

\* the tail of translate: markers removed, lower case, runs collapsed
Decoded(words) ==
  Join(GroupKeys([k \in 1..Len(WithoutMarkers(words)) |->
                    Lower(WithoutMarkers(words)[k])]))

\* Faulty variant: if input_sentence.strip() == "": break
IsBreakLax(line) == Strip(line) = <<>>

\* if input_sentence == "": break
IsBreak(line) == line = <<>>

InitTranslator ==
  /\ nifti = <<>>
  /\ dirs = {}
  /\ files = NoFiles
  /\ mask_path = ""
  /\ window_level = None
  /\ make_binary = FALSE
  /\ pc = "not_called"
  /\ err = ""
  /\ mask_data = Missing
  /\ image_data = Missing
  /\ i = 0
  /\ denoms = <<>>
  /\ written = <<>>
  /\ dirs0 = dirs
  /\ files0 = files
  /\ mask_paths = <<>>
  /\ case_idx = 0
  /\ batch_pc = "none"
  /\ runs = 0
  /\ stdin \in UNION {[1..n -> Sentences] : n \in 0..MaxLines}
  /\ lines_read = 0
  /\ input_sentence = <<>>
  /\ tr_pc = "input"
  /\ tokens = <<>>
  /\ translated = ""
  /\ stdout = <<>>
  /\ infer_log = <<>>
  /\ translate_log = <<>>

\* input_sentence = input(); if input_sentence == "": break
\* (input() waits while the user has typed nothing more)
ReadLine ==
  /\ tr_pc = "input"
  /\ lines_read < Len(stdin)
  /\ input_sentence' = stdin[lines_read + 1]
  /\ lines_read' = lines_read + 1
  /\ tr_pc' = IF IsBreak(stdin[lines_read + 1]) THEN "returned" ELSE "translate"
  /\ UNCHANGED <<callVars, callerVars, stdin, tokens, translated, stdout,
                 infer_log, translate_log>>

\* translate(input_sentence), up to the second assert
Tokenize ==
  /\ tr_pc = "translate"
  /\ translate_log' = Append(translate_log, input_sentence)
  /\ IF Len(Strip(input_sentence)) > 0
     THEN /\ tokens' = Padded(WithMarkers(Encode(Strip(input_sentence))))
          /\ tr_pc' = IF LengthOk(tokens') THEN "infer" ELSE "raised"
     ELSE /\ tokens' = tokens
          /\ tr_pc' = "raised"
  /\ UNCHANGED <<callVars, callerVars, stdin, lines_read, input_sentence,
                 translated, stdout, infer_log>>

\* infer_request.infer(...), then decode and clean up; translate returns
Infer ==
  /\ tr_pc = "infer"
  /\ infer_log' = Append(infer_log, [call |-> Len(translate_log),
                                     encoded_sentence |-> tokens])
  /\ \E out \in InferOutputs : translated' = Decoded(out)
  /\ tr_pc' = "print"
  /\ UNCHANGED <<callVars, callerVars, stdin, lines_read, input_sentence,
                 tokens, stdout, translate_log>>

\* print(f'Translated: {translated}'); print(f'Time: ...')
PrintTranslated ==
  /\ tr_pc = "print"
  /\ stdout' = stdout \o <<"Translated: " \o translated, "Time">>
  /\ tr_pc' = "input"
  /\ UNCHANGED <<callVars, callerVars, stdin, lines_read, input_sentence,
                 tokens, translated, infer_log, translate_log>>

NextTranslator ==
  \/ ReadLine
  \/ Tokenize
  \/ Infer
  \/ PrintTranslated

SpecTranslator == InitTranslator /\ [][NextTranslator]_vars

\* -------------------------------------------------------- properties
InputMask == nifti[mask_path].mask

InputImage == nifti[mask_path].image

ImageFilesOf(case) == {p \in DOMAIN files : p[1] = ImageDirectory(case)}

MaskFilesOf(case) == {p \in DOMAIN files : p[1] = MaskDirectory(case)}

BeforeLoad == {"mkdir_root", "assert_paths"}

BeforeShapeCheck == BeforeLoad \cup {"load", "assert_shape"}

AfterWindow == {"mkdirs", "loop", "done"}

\* C1: when the label volume and the image volume of the case differ in
\* shape, the call never gets past the shape assertion: it ends aborted
\* with the shape error, it has called cv2.imwrite for no path, and no
\* image frame and no mask frame of the case is on disk.
C1_ShapeMismatchRaisesBeforeWrite ==
  (InputMask # Missing /\ InputImage # Missing
     /\ InputMask.shape # InputImage.shape)
  => /\ pc \in BeforeShapeCheck \cup {"aborted"}
     /\ pc = "aborted" => err = "Mask and image shape are not equal"
     /\ written = <<>>
     /\ files = files0
     /\ ImageFilesOf(mask_path) = {} /\ MaskFilesOf(mask_path) = {}

C1_Witness ==
  /\ pc = "aborted"
  /\ err = "Mask and image shape are not equal"
  /\ InputMask.shape[1] = InputImage.shape[1]
  /\ InputMask.shape # InputImage.shape

\* C2: every pixel of every image frame on disk lies in 0..255, with a
\* window and without one.
C2_PixelsIn8Bit ==
  \A p \in ImageFilesOf(mask_path) :
    \A k \in DOMAIN files[p] : files[p][k] \in 0..255

C2_Witness ==
  /\ pc = "done"
  /\ window_level # None
  /\ \E p \in ImageFilesOf(mask_path) :
       /\ \E k \in DOMAIN files[p] : files[p][k] = 127
       /\ \E k \in DOMAIN files[p] : files[p][k] = 255

\* C3: with make_binary set, each value of each mask frame written is 1
\* where the label of the input volume is positive and 0 elsewhere.
C3_Binarization ==
  make_binary =>
    \A n \in 0..(i - 1) :
      /\ NewMaskPath(mask_path, n) \in DOMAIN files
      /\ \A k \in DOMAIN InputMask.data[n + 1] :
           files[NewMaskPath(mask_path, n)][k] =
             IF InputMask.data[n + 1][k] > 0 THEN 1 ELSE 0

C3_Witness ==
  /\ make_binary
  /\ pc = "done"
  /\ \E n \in 0..(i - 1) :
       /\ \E k \in DOMAIN InputMask.data[n + 1] : InputMask.data[n + 1][k] = 2
       /\ \E k \in DOMAIN InputMask.data[n + 1] : InputMask.data[n + 1][k] = 0

Clamp(x, low, high) == IF x < low THEN low ELSE IF x > high THEN high ELSE x

\* C4: once the windowing step is over, every intensity of image_data is
\* the clamp of the input intensity to the window, and with no window the
\* input intensity itself.
C4_WindowingIsClamp ==
  pc \in AfterWindow =>
    /\ image_data.shape = InputImage.shape
    /\ \A s \in DOMAIN InputImage.data :
         \A k \in DOMAIN InputImage.data[s] :
           image_data.data[s][k] =
             IF window_level = None THEN InputImage.data[s][k]
             ELSE Clamp(InputImage.data[s][k], window_level[1], window_level[2])

C4_Witness ==
  /\ pc = "mkdirs"
  /\ window_level # None
  /\ \E s \in DOMAIN InputImage.data :
       /\ \E k \in DOMAIN InputImage.data[s] :
            InputImage.data[s][k] < window_level[1]
       /\ \E k \in DOMAIN InputImage.data[s] :
            InputImage.data[s][k] > window_level[2]
       /\ \E k \in DOMAIN InputImage.data[s] :
            /\ InputImage.data[s][k] > window_level[1]
            /\ InputImage.data[s][k] < window_level[2]

\* C5: when the call has completed, the case has as many image files and
\* as many mask files as the volume has slices along its first axis.
C5_OneFilePerSlice ==
  pc = "done" =>
    /\ Cardinality(ImageFilesOf(mask_path)) = InputImage.shape[1]
    /\ Cardinality(MaskFilesOf(mask_path)) = InputImage.shape[1]

C5_Witness ==
  pc = "done" /\ InputImage.shape[1] = 2 /\ Cardinality(ImageFilesOf(mask_path)) = 2

\* the four decimal digits of n, for n < 10000
FourDigits(n) ==
  Digit[((n \div 1000) % 10) + 1] \o Digit[((n \div 100) % 10) + 1]
    \o Digit[((n \div 10) % 10) + 1] \o Digit[(n % 10) + 1]

IndexSamples == 0..(MaxDepth + 1) \cup {10, 1000, 9999, 10000}

\* C6: the k-th iteration writes one image frame and one mask frame, named
\* <case>_<k as four zero-padded digits>.jpg / .png in the case's two frame
\* directories; no path is written twice in a call, the files on disk are
\* the paths written, and no other (case, index) pair has the path of a
\* frame this call wrote.
C6_DeterministicDistinctNames ==
  /\ Len(written) = 2 * i
  /\ \A n \in 0..(i - 1) :
       /\ written[2 * n + 1] =
            <<ImageDirectory(mask_path), mask_path \o "_" \o FourDigits(n) \o ".jpg">>
       /\ written[2 * n + 2] =
            <<MaskDirectory(mask_path), mask_path \o "_" \o FourDigits(n) \o ".png">>
       /\ \A c \in Cases : \A m \in IndexSamples :
            /\ NewMaskPath(c, m) # written[2 * n + 1]
            /\ NewImagePath(c, m) # written[2 * n + 2]
            /\ (c # mask_path \/ m # n) =>
                 /\ NewImagePath(c, m) # written[2 * n + 1]
                 /\ NewMaskPath(c, m) # written[2 * n + 2]
  /\ \A a, b \in 1..Len(written) : a # b => written[a] # written[b]
  /\ DOMAIN files = {written[a] : a \in 1..Len(written)}

C6_Witness ==
  pc = "done" /\ i = 2 /\ Len(written) = 4 /\ Cardinality(DOMAIN files) = 4

\* C7: when segmentation.nii.gz or imaging.nii.gz of the case is missing,
\* the call ends at the existence assertions with their error: no volume is
\* ever loaded, no frame is written, and nothing follows the abort.
C7_MissingFileIsFatal ==
  (InputMask = Missing \/ InputImage = Missing)
  => /\ pc \in BeforeLoad \cup {"aborted"}
     /\ mask_data = Missing /\ image_data = Missing
     /\ written = <<>> /\ files = files0
     /\ pc = "aborted" =>
          /\ err = IF InputMask = Missing THEN "mask_path does not exist!"
                   ELSE "image_path does not exist!"
          /\ ~ ENABLED Next

C7_Witness ==
  pc = "aborted" /\ InputMask # Missing /\ InputImage = Missing

\* C8 as stated: a call that aborts leaves the output location as it was,
\* directories included.
C8_AbortLeavesNoTrace ==
  pc = "aborted" => files = files0 /\ dirs = dirs0

\* C8 amended: a call that aborts has written no file and created neither
\* the case directory nor a frame directory; the output location differs
\* from what it was at most by root_dir, which exists after the abort.
C8_AbortCreatesOnlyRoot ==
  pc = "aborted" =>
    /\ files = files0
    /\ written = <<>>
    /\ dirs = dirs0 \cup {root_dir}

C8_Witness ==
  /\ pc = "aborted"
  /\ err = "Mask and image shape are not equal"
  /\ dirs0 = {}
  /\ dirs = {root_dir}

\* The image frames one slice may become, from that slice and the window.
ExpectedImageFrames(slice, window) ==
  LET c == [k \in DOMAIN slice |->
              IF window = None THEN slice[k]
              ELSE Clamp(slice[k], window[1], window[2])]
  IN IF SeqMin(c) = SeqMax(c) THEN [DOMAIN slice -> NaNAsUint8]
     ELSE {[k \in DOMAIN slice |->
              ((c[k] - SeqMin(c)) * 255) \div (SeqMax(c) - SeqMin(c))]}

\* The mask frame of one slice, from that slice and the binarize flag.
ExpectedMaskFrame(slice, binary) ==
  [k \in DOMAIN slice |-> IF binary /\ slice[k] > 0 THEN 1 ELSE slice[k]]

IsConstant(slice) == \A a, b \in DOMAIN slice : slice[a] = slice[b]

\* C10: every iteration performs the division; its denominator is 0 exactly
\* when the slice, as the loop finds it, is constant; and the frame of such
\* a slice is written all the same, each pixel a cast of NaN.
C10_ConstantSliceDividesByZero ==
  /\ Len(denoms) = i
  /\ \A n \in 0..(i - 1) :
       /\ denoms[n + 1] = 0 <=> IsConstant(image_data.data[n + 1])
       /\ denoms[n + 1] = 0 =>
            /\ NewImagePath(mask_path, n) \in DOMAIN files
            /\ \A k \in DOMAIN image_data.data[n + 1] :
                 files[NewImagePath(mask_path, n)][k] \in NaNAsUint8

C10_Witness ==
  /\ pc = "done"
  /\ window_level = None
  /\ \E n \in 0..(i - 1) :
       /\ denoms[n + 1] = 0
       /\ Len(image_data.data[n + 1]) >= 2
       /\ InputImage.data[n + 1] = image_data.data[n + 1]

\* The place of a case in the order of the case names.
NamePos(c) == CHOOSE k \in 1..Len(CaseSeq) : CaseSeq[k] = c

AnyFrameOf(c) ==
  \E p \in DOMAIN files : p[1] \in {ImageDirectory(c), MaskDirectory(c)}

BothFramesOf(c, n) ==
  NewImagePath(c, n) \in DOMAIN files /\ NewMaskPath(c, n) \in DOMAIN files

SomeFrameOf(c, n) ==
  NewImagePath(c, n) \in DOMAIN files \/ NewMaskPath(c, n) \in DOMAIN files

\* The case converts without an error and every frame of it is on disk.
AllFramesOf(c) ==
  /\ nifti[c].mask # Missing /\ nifti[c].image # Missing
  /\ nifti[c].mask.shape = nifti[c].image.shape
  /\ \A n \in 0..(nifti[c].image.shape[1] - 1) : BothFramesOf(c, n)

\* C11: in the batch conversion cell, a frame of case k on disk means that
\* every case with a mask whose name sorts before k has all its frames on
\* disk, and frame n of a case means that all its frames below n are there;
\* once a call has failed the cell has ended: the failed case is the one
\* last started, the cases before it keep all their frames, and the cases
\* after it have neither a frame nor a directory, and nothing more happens.
C11_SequentialSortedFailStop ==
  /\ \A k \in BatchCases :
       AnyFrameOf(k) =>
         /\ nifti[k].mask # Missing
         /\ \A j \in BatchCases :
              (nifti[j].mask # Missing /\ NamePos(j) < NamePos(k))
                => AllFramesOf(j)
  /\ \A c \in BatchCases : \A n \in 0..(MaxDepth + 1) :
       SomeFrameOf(c, n) => \A m \in 0..(n - 1) : BothFramesOf(c, m)
  /\ batch_pc = "raised" =>
       /\ pc = "aborted"
       /\ ~ AnyFrameOf(mask_path)
       /\ \A j \in BatchCases :
            /\ (nifti[j].mask # Missing /\ NamePos(j) < NamePos(mask_path))
                 => AllFramesOf(j)
            /\ NamePos(j) > NamePos(mask_path)
                 => ~ AnyFrameOf(j) /\ CaseDirectory(j) \notin dirs
       /\ ~ ENABLED NextBatch

C11_Witness ==
  /\ batch_pc = "raised"
  /\ mask_path = CaseSeq[2]
  /\ AllFramesOf(CaseSeq[1])
  /\ nifti[CaseSeq[1]].image.shape[1] = 2
  /\ AllFramesOf(CaseSeq[3]) = FALSE
  /\ nifti[CaseSeq[3]].mask # Missing
  /\ nifti[CaseSeq[3]].mask.shape = nifti[CaseSeq[3]].image.shape

\* The token sequence translate builds for a sentence that passes its
\* asserts, written from the sentence alone.
ExpectedTokens(line) ==
  LET body == Encode(Strip(line))
  IN [k \in 1..max_tokens |->
        IF k = 1 THEN BOS
        ELSE IF k <= Len(body) + 1 THEN body[k - 1]
        ELSE IF k = Len(body) + 2 THEN EOS
        ELSE PAD]

\* The sentence is empty once stripped, or too long for the network input.
Rejected(line) ==
  \/ Strip(line) = <<>>
  \/ Len(Encode(Strip(line))) + 2 > max_tokens

InferredCalls == {infer_log[k].call : k \in 1..Len(infer_log)}

\* C12: every sequence translate hands to the network has exactly
\* max_tokens entries, <s>, the sentence's tokens, </s>, then <pad> to the
\* end; a sentence that is empty once stripped, or whose tokens and markers
\* exceed max_tokens, ends translate with an error before any inference and
\* is never truncated.
C12_PadsOrAborts ==
  /\ \A k \in 1..Len(infer_log) :
       LET line == translate_log[infer_log[k].call]
       IN /\ ~Rejected(line)
          /\ Len(infer_log[k].encoded_sentence) = max_tokens
          /\ infer_log[k].encoded_sentence = ExpectedTokens(line)
  /\ \A c \in 1..Len(translate_log) :
       Rejected(translate_log[c]) =>
         /\ c \notin InferredCalls
         /\ c = Len(translate_log)
         /\ tr_pc = "raised"

C12_Witness ==
  /\ tr_pc = "raised"
  /\ Len(translate_log) = 3
  /\ Len(infer_log) = 2
  /\ infer_log[1].encoded_sentence = <<BOS, "b", EOS, PAD>>
  /\ infer_log[2].encoded_sentence[max_tokens] = EOS
  /\ Strip(translate_log[3]) # <<>>
  /\ Rejected(translate_log[3])

\* The lines read so far.
LinesRead == SubSeq(stdin, 1, lines_read)

\* Two lines are printed for every translation.
Printed == Len(stdout) \div 2

\* C13 as stated: run_translator ends only on the first empty line, and
\* every line read before it has had its translation printed.
C13_EndsOnlyOnEmptyLine ==
  tr_pc \in {"returned", "raised"} =>
    /\ input_sentence = <<>>
    /\ Printed = lines_read - 1

\* C13: run_translator reads lines until the first empty line, which ends
\* it without being translated, or until translate raises on a line, which
\* ends it with that error, nothing printed for that line and no further
\* line read; every line read before is passed to translate exactly once,
\* in input order, and its translation is printed before the next line is
\* read.
C13_ReadsUntilEmptyOrError ==
  /\ \A k \in 1..lines_read :
       k < lines_read => stdin[k] # <<>> /\ ~Rejected(stdin[k])
  /\ translate_log =
       IF tr_pc = "returned" \/ (tr_pc = "translate")
       THEN SubSeq(stdin, 1, lines_read - 1)
       ELSE LinesRead
  /\ tr_pc = "input" => Printed = lines_read
  /\ tr_pc \in {"translate", "infer", "print"} => Printed = lines_read - 1
  /\ \A k \in 1..Printed : stdout[2 * k - 1] \in
       {"Translated: " \o Decoded(out) : out \in InferOutputs}
  /\ tr_pc = "returned" =>
       /\ input_sentence = <<>>
       /\ stdin[lines_read] = <<>>
       /\ Printed = lines_read - 1
  /\ tr_pc = "raised" =>
       /\ input_sentence = stdin[lines_read]
       /\ input_sentence # <<>>
       /\ Rejected(input_sentence)
       /\ Printed = lines_read - 1
       /\ ~ENABLED ReadLine

C13_Witness ==
  /\ tr_pc = "raised"
  /\ lines_read = 2
  /\ Len(stdin) = 3
  /\ Printed = 1
  /\ input_sentence = <<" ">>

AllAtMost(slice, low) == \A k \in DOMAIN slice : slice[k] <= low

AllAtLeast(slice, high) == \A k \in DOMAIN slice : slice[k] >= high

\* C14: under a window (low, high) the denominator of a slice is 0 whenever
\* all its raw intensities are <= low or all are >= high, also when the raw
\* values differ, and otherwise only when the raw slice is constant;
\* without a window it is 0 only when the raw slice is constant.
C14_WindowMakesConstantSlices ==
  \A n \in 0..(i - 1) :
    LET raw == InputImage.data[n + 1]
    IN IF window_level = None
       THEN denoms[n + 1] = 0 <=> IsConstant(raw)
       ELSE /\ AllAtMost(raw, window_level[1]) => denoms[n + 1] = 0
            /\ AllAtLeast(raw, window_level[2]) => denoms[n + 1] = 0
            /\ denoms[n + 1] = 0 =>
                 \/ IsConstant(raw)
                 \/ AllAtMost(raw, window_level[1])
                 \/ AllAtLeast(raw, window_level[2])

C14_Witness ==
  /\ pc = "done"
  /\ window_level = NarrowWindow
  /\ InputImage.data = <<<<-200, -125>>, <<50, 300>>>>
  /\ Denominator(InputImage, 0) # 0
  /\ Denominator(InputImage, 1) # 0
  /\ denoms = <<0, 0>>

\* The files the call in progress does not produce.
OtherFiles == DOMAIN files0 \ {written[k] : k \in 1..Len(written)}

C15_RerunKeepsTreeAndDefinedFrames ==
  runs = 2 =>
    /\ pc # "aborted"
    /\ dirs = dirs0
    /\ DOMAIN files = DOMAIN files0
    /\ \A p \in OtherFiles : files[p] = files0[p]
    /\ \A n \in 0..(i - 1) :
         /\ files[NewMaskPath(mask_path, n)] = files0[NewMaskPath(mask_path, n)]
         /\ denoms[n + 1] # 0 =>
              files[NewImagePath(mask_path, n)] = files0[NewImagePath(mask_path, n)]

=============================================================================
